---- MODULE Spec2Model ----
(***************************************************************************)
(* Cauldron (server.js): the POST /cast-spell and POST /subscribe handlers *)
(* of the current server (the second, database-backed copy in server.js).  *)
(*                                                                         *)
(* A JavaScript string is a sequence of one-character strings, so that     *)
(* trim, toLowerCase, includes and indexOf are computed character by       *)
(* character.  An optional JSON body field is a record                     *)
(* [present, s]; body fields are JSON strings or absent, as in the         *)
(* request shapes { intent, length?, ingredients? } and { email }.         *)
(***************************************************************************)
EXTENDS Integers, Sequences, FiniteSets, TLC

\* Number of /cast-spell requests and of /subscribe requests in a run.
NumCast == 1
NumSub == 2

CastReqs == 1..NumCast
SubReqs == 1..NumSub

VARIABLES
  pc,          \* pc[r]: "idle", "awaiting" (completion call in flight), "done"
  body,        \* body[r]: req.body of /cast-spell request r
  userAgent,   \* userAgent[r]: the request's User-Agent header
  completion,  \* completion[r]: how the completion call settled
  effects,     \* effects[r]: what the handler did, in order (call, res, insert, log)
  dbState,     \* dbState[r]: "none", "pending", "ok", "failed" (the insert's promise)
  spells,      \* rows of the spells table
  file,        \* emails.json: [exists, data]
  subPc,       \* subPc[s]: "idle", "pending" (received, handler not yet run), "done"
  subBody,     \* subBody[s]: req.body.email of /subscribe request s
  subRes,      \* subRes[s]: responses sent for s, in order
  overlapped   \* requests that were pending together with another /subscribe request

vars == <<pc, body, userAgent, completion, effects, dbState, spells,
          file, subPc, subBody, subRes, overlapped>>
castVars == <<pc, body, userAgent, completion, effects, dbState, spells>>
subVars == <<file, subPc, subBody, subRes, overlapped>>

-----------------------------------------------------------------------------
\* JavaScript strings and optional values

UpperCase == <<"A", "B", "C", "D", "E", "F", "G", "H", "I", "J", "K", "L", "M", "N", "O", "P", "Q", "R", "S", "T", "U", "V", "W", "X", "Y", "Z">>
LowerCase == <<"a", "b", "c", "d", "e", "f", "g", "h", "i", "j", "k", "l", "m", "n", "o", "p", "q", "r", "s", "t", "u", "v", "w", "x", "y", "z">>

toLowerChar(c) ==
  IF \E i \in 1..Len(UpperCase) : UpperCase[i] = c
    THEN LowerCase[CHOOSE i \in 1..Len(UpperCase) : UpperCase[i] = c]
    ELSE c

\* String.prototype.toLowerCase
toLowerCase(s) == [i \in 1..Len(s) |-> toLowerChar(s[i])]

WhiteSpace == {" ", "\t", "\n", "\r"}

SetMin(S) == CHOOSE x \in S : \A y \in S : x <= y
SetMax(S) == CHOOSE x \in S : \A y \in S : y <= x

\* String.prototype.trim
trim(s) ==
  LET keep == {i \in 1..Len(s) : s[i] \notin WhiteSpace}
  IN  IF keep = {} THEN <<>> ELSE SubSeq(s, SetMin(keep), SetMax(keep))

\* String.prototype.includes
includes(s, t) ==
  \E i \in 1..(Len(s) - Len(t) + 1) : SubSeq(s, i, i + Len(t) - 1) = t

\* An optional string: a missing (undefined) field, or a string.
Absent == [present |-> FALSE, s |-> <<>>]
Str(s) == [present |-> TRUE, s |-> s]

\* (v || d) for an optional string v: undefined and '' are falsy.
OrDefault(v, d) == IF v.present /\ v.s # <<>> THEN v.s ELSE d

-----------------------------------------------------------------------------
\* POST /cast-spell: the synchronous part, up to the await

intentOf(b) == trim(OrDefault(b.intent, <<>>))

DefaultLength == <<"m", "e", "d", "i", "u", "m">>

lengthOf(b) == toLowerCase(OrDefault(b.length, DefaultLength))

ingredientsOf(b) == trim(OrDefault(b.ingredients, <<>>))

BANNED ==
  << <<"g", "u", "n">>,
     <<"k", "n", "i", "f", "e">>,
     <<"b", "l", "a", "d", "e">>,
     <<"r", "a", "z", "o", "r">>,
     <<"r", "a", "z", "o", "r", "b", "l", "a", "d", "e">>,
     <<"m", "a", "c", "h", "e", "t", "e">>,
     <<"s", "w", "o", "r", "d">>,
     <<"b", "u", "l", "l", "e", "t">>,
     <<"a", "m", "m", "o">>,
     <<"e", "x", "p", "l", "o", "s", "i", "v", "e">>,
     <<"g", "u", "n", "p", "o", "w", "d", "e", "r">>,
     <<"f", "i", "r", "e", "w", "o", "r", "k">>,
     <<"n", "o", "o", "s", "e">>,
     <<"s", "y", "r", "i", "n", "g", "e">>,
     <<"a", "c", "i", "d">>,
     <<"p", "o", "i", "s", "o", "n">>,
     <<"b", "l", "e", "a", "c", "h">>,
     <<"a", "m", "m", "o", "n", "i", "a">>,
     <<"l", "y", "e">>,
     <<"g", "a", "s", "o", "l", "i", "n", "e">>,
     <<"l", "i", "g", "h", "t", "e", "r", " ", "f", "l", "u", "i", "d">>,
     <<"m", "a", "t", "c", "h", "e", "s">>,
     <<"b", "l", "o", "o", "d">>,
     <<"d", "r", "u", "g">>,
     <<"d", "r", "u", "g", "s">>,
     <<"h", "e", "r", "o", "i", "n">>,
     <<"c", "o", "c", "a", "i", "n", "e">>,
     <<"m", "e", "t", "h">>,
     <<"a", "m", "p", "h", "e", "t", "a", "m", "i", "n", "e">>,
     <<"o", "p", "i", "o", "i", "d">>,
     <<"o", "x", "y", "c", "o", "n", "t", "i", "n">>,
     <<"f", "e", "n", "t", "a", "n", "y", "l">>,
     <<"x", "a", "n", "a", "x">>,
     <<"a", "d", "d", "e", "r", "a", "l", "l">>,
     <<"m", "a", "r", "i", "j", "u", "a", "n", "a">>,
     <<"w", "e", "e", "d">>,
     <<"l", "s", "d">>,
     <<"m", "u", "s", "h", "r", "o", "o", "m">>,
     <<"s", "h", "r", "o", "o", "m">>,
     <<"p", "r", "e", "s", "c", "r", "i", "p", "t", "i", "o", "n">>,
     <<"p", "h", "a", "r", "m", "a", "c", "e", "u", "t", "i", "c", "a", "l">>,
     <<"n", "a", "r", "c", "o", "t", "i", "c">>,
     <<"p", "i", "l", "l">>,
     <<"t", "a", "b", "l", "e", "t">>,
     <<"c", "a", "p", "s", "u", "l", "e">>,
     <<"s", "w", "a", "s", "t", "i", "k", "a">>,
     <<"k", "k", "k">>,
     <<"k", "l", "a", "n">>,
     <<"r", "a", "c", "i", "s", "t">>,
     <<"w", "h", "i", "t", "e", " ", "p", "o", "w", "e", "r">>,
     <<"n", "a", "z", "i">>,
     <<"s", "u", "p", "r", "e", "m", "a", "c", "i", "s", "t">>,
     <<"c", "o", "n", "f", "e", "d", "e", "r", "a", "t", "e", " ", "f", "l", "a", "g">>,
     <<"h", "a", "t", "e", " ", "s", "y", "m", "b", "o", "l">> >>

\* Mutant of findBanned: the last matching term instead of the first.
findBannedLast(s) ==
  LET hits == {i \in 1..Len(BANNED) : includes(s, BANNED[i])}
  IN  IF hits = {} THEN <<>> ELSE BANNED[SetMax(hits)]

\* BANNED.find(t => s.includes(t)): the first term, in list order, that s
\* contains; <<>> stands for undefined (every term is non-empty).
findBanned(s) ==
  LET hits == {i \in 1..Len(BANNED) : includes(s, BANNED[i])}
  IN  IF hits = {} THEN <<>> ELSE BANNED[SetMin(hits)]

\* String(ingredients).toLowerCase() && BANNED.find(...); <<>> is falsy.
unsafeHit(ingredients) ==
  IF toLowerCase(ingredients) = <<>> THEN <<>>
  ELSE findBanned(toLowerCase(ingredients))

\* The length presets (word guidance + token caps).
lengthConfig ==
  [ short  |-> [type |-> "preset", max_tokens |-> 200,
                guide |-> "Length: ~90-180 words total. Use 1-2 simple ritual steps and a spoken poetic spell."],
    medium |-> [type |-> "preset", max_tokens |-> 350,
                guide |-> "Length: ~180-300 words total. Use 2-3 simple ritual steps and a spoken poetic spell."],
    long   |-> [type |-> "preset", max_tokens |-> 500,
                guide |-> "Length: ~300-400 words total. Use 3-4 simple ritual steps and a spoken poetic spell."] ]

\* The own keys of the lengthConfig object literal.
OwnKeys ==
  << [key |-> <<"s", "h", "o", "r", "t">>, value |-> lengthConfig.short],
     [key |-> <<"m", "e", "d", "i", "u", "m">>, value |-> lengthConfig.medium],
     [key |-> <<"l", "o", "n", "g">>, value |-> lengthConfig.long] >>

\* lengthConfig is an object literal, so a property read that misses the own
\* keys continues on Object.prototype: these are its property names.
ObjectPrototypeKeys ==
  { <<"c", "o", "n", "s", "t", "r", "u", "c", "t", "o", "r">>,
    <<"_", "_", "p", "r", "o", "t", "o", "_", "_">>,
    <<"t", "o", "S", "t", "r", "i", "n", "g">>,
    <<"t", "o", "L", "o", "c", "a", "l", "e", "S", "t", "r", "i", "n", "g">>,
    <<"v", "a", "l", "u", "e", "O", "f">>,
    <<"h", "a", "s", "O", "w", "n", "P", "r", "o", "p", "e", "r", "t", "y">>,
    <<"i", "s", "P", "r", "o", "t", "o", "t", "y", "p", "e", "O", "f">>,
    <<"p", "r", "o", "p", "e", "r", "t", "y", "I", "s", "E", "n", "u", "m", "e", "r", "a", "b", "l", "e">>,
    <<"_", "_", "d", "e", "f", "i", "n", "e", "G", "e", "t", "t", "e", "r", "_", "_">>,
    <<"_", "_", "d", "e", "f", "i", "n", "e", "S", "e", "t", "t", "e", "r", "_", "_">>,
    <<"_", "_", "l", "o", "o", "k", "u", "p", "G", "e", "t", "t", "e", "r", "_", "_">>,
    <<"_", "_", "l", "o", "o", "k", "u", "p", "S", "e", "t", "t", "e", "r", "_", "_">> }

\* lengthConfig[key]: <<>> is undefined, <<v>> the value read.  An inherited
\* property is a built-in function or object (truthy, and no preset).
getProperty(key) ==
  IF \E i \in 1..Len(OwnKeys) : OwnKeys[i].key = key
    THEN <<OwnKeys[CHOOSE i \in 1..Len(OwnKeys) : OwnKeys[i].key = key].value>>
  ELSE IF key \in ObjectPrototypeKeys
    THEN <<[type |-> "builtin", name |-> key]>>
  ELSE <<>>

\* const L = lengthConfig[length] || lengthConfig.medium
resolveL(length) ==
  IF Len(getProperty(length)) > 0 THEN getProperty(length)[1]
  ELSE lengthConfig.medium

\* L.max_tokens and L.guide: <<>> is undefined.
maxTokensOf(L) == IF L.type = "preset" THEN <<L.max_tokens>> ELSE <<>>
guideOf(L) == IF L.type = "preset" THEN <<L.guide>> ELSE <<>>

NoneSpecified == <<"n", "o", "n", "e", " ", "s", "p", "e", "c", "i", "f", "i", "e", "d">>

\* What the handler does, as it does it.
Res(status, resBody) == [op |-> "res", status |-> status, body |-> resBody]
ErrorBody(text, term) == [error |-> [text |-> text, term |-> term]]
SpellBody(spell) == [spell |-> spell]
Log(text) == [op |-> "log", text |-> text]

NoIntention == "No intention provided."
BannedTemplate == "For safety and inclusivity, Cauldron cannot use or reference '%s'. Please choose benign items like herbs, crystals, candles, colors, paper, string, salt, water, or stones."

\* openai.chat.completions.create({... max_tokens: L.max_tokens, messages})
createCall(L, intent, ingredients) ==
  [ op |-> "call",
    max_tokens |-> maxTokensOf(L),
    guide |-> guideOf(L),
    intent |-> intent,
    ingredients |-> IF ingredients # <<>> THEN ingredients ELSE NoneSpecified ]

\* Mutant of castSpellEntry: the 400 for a blank intent does not return.
castSpellEntryNoReturn(b) ==
  LET intent == intentOf(b)
      length == lengthOf(b)
      ingredients == ingredientsOf(b)
      hit == unsafeHit(ingredients)
  IN  IF hit # <<>>
        THEN [pc |-> "done", out |-> <<Res(400, ErrorBody(BannedTemplate, hit))>>]
      ELSE [pc |-> "awaiting",
            out |-> (IF intent = <<>>
                       THEN <<Res(400, ErrorBody(NoIntention, <<>>))>>
                       ELSE <<>>)
                    \o <<createCall(resolveL(length), intent, ingredients)>>]

\* The handler from its entry to the await: the next position and the
\* effects, in order.
castSpellEntry(b) ==
  LET intent == intentOf(b)
      length == lengthOf(b)
      ingredients == ingredientsOf(b)
      hit == unsafeHit(ingredients)
  IN  IF hit # <<>>
        THEN [pc |-> "done", out |-> <<Res(400, ErrorBody(BannedTemplate, hit))>>]
      ELSE IF intent = <<>>
        THEN [pc |-> "done", out |-> <<Res(400, ErrorBody(NoIntention, <<>>))>>]
      ELSE [pc |-> "awaiting",
            out |-> <<createCall(resolveL(length), intent, ingredients)>>]

-----------------------------------------------------------------------------
\* POST /cast-spell: after the await

FallbackSpell == <<"T", "h", "e", " ", "s", "p", "i", "r", "i", "t", "s", " ", "w", "h", "i", "s", "p", "e", "r", ",", " ", "b", "u", "t", " ", "w", "o", "r", "d", "s", " ", "f", "a", "i", "l", " ", "t", "o", " ", "f", "o", "r", "m", ".">>

\* completion && completion.choices && completion.choices[0] &&
\* completion.choices[0].message && completion.choices[0].message.content || ''
contentOf(c) ==
  IF /\ c.defined
     /\ c.hasChoices
     /\ Len(c.choices) > 0
     /\ c.choices[1].hasMessage
    THEN OrDefault(c.choices[1].content, <<>>)
    ELSE <<>>

\* Mutant of spellOf: no fallback sentence.
spellOfNoFallback(c) == trim(contentOf(c))

\* (... || '').trim() || 'The spirits whisper, but words fail to form.'
spellOf(c) ==
  IF trim(contentOf(c)) # <<>> THEN trim(contentOf(c)) ELSE FallbackSpell

\* crypto.createHash('sha256').update(req.ip || '').digest('hex').slice(0,16)
ipHash(ip) == [sha256_16 |-> ip]

\* Mutant of insertRow: the intent as submitted, not trimmed.
insertRowUntrimmed(b, ua, ip, spell) ==
  [ intent |-> OrDefault(b.intent, <<>>),
    length |-> lengthOf(b),
    spell_text |-> spell,
    ua |-> OrDefault(ua, <<>>),
    ip_hash |-> ipHash(ip) ]

\* The parameters of the INSERT INTO spells.
insertRow(b, ua, ip, spell) ==
  [ intent |-> intentOf(b),
    length |-> lengthOf(b),
    spell_text |-> spell,
    ua |-> OrDefault(ua, <<>>),
    ip_hash |-> ipHash(ip) ]

Insert(row) == [op |-> "insert", row |-> row]

\* res.json({ spell }), then db.query(...), not awaited.
afterCompletion(b, ua, ip, c) ==
  << Res(200, SpellBody(spellOf(c))),
     Insert(insertRow(b, ua, ip, spellOf(c))) >>

\* log.data?.error?.message, with data = e?.response?.data || null
dataErrorMessage(e) ==
  IF e.defined /\ e.response = "error" THEN e.dataMessage ELSE ""

\* Mutant of errorMessage: the generic message whatever the upstream said.
errorMessageGeneric(e) == "OpenAI error"

\* log.data?.error?.message || log.message || 'OpenAI error'
errorMessage(e) ==
  IF dataErrorMessage(e) # "" THEN dataErrorMessage(e)
  ELSE IF e.defined /\ e.message # "" THEN e.message
  ELSE "OpenAI error"

\* catch (e): console.error, then res.status(500).json({ error })
catchError(e) ==
  << Log("Chat error ->"), Res(500, ErrorBody(errorMessage(e), <<>>)) >>

\* The row a request's INSERT carries.
issuedRow(effs) ==
  effs[CHOOSE i \in 1..Len(effs) : effs[i].op = "insert"].row

\* Mutant of insertFailed: the failed insert is issued again.
insertFailedRetries(effs) ==
  Append(Append(effs, Log("DB insert failed:")), Insert(issuedRow(effs)))

\* .catch(err => console.error('DB insert failed:', err.message))
insertFailed(effs) == Append(effs, Log("DB insert failed:"))

-----------------------------------------------------------------------------
\* Requests and what the completion service and the database answer

Intents ==
  { Absent, Str(<<>>), Str(<<" ", " ">>), Str(<<" ", "f", "i", "n", "d", " ", "c", "l", "a", "r", "i", "t", "y", " ">>) }

Lengths ==
  { Absent, Str(<<"S", "H", "O", "R", "T">>), Str(<<"l", "o", "n", "g">>), Str(<<"t", "o", "S", "t", "r", "i", "n", "g">>),
    Str(<<"c", "o", "n", "s", "t", "r", "u", "c", "t", "o", "r">>) }

Ingredients ==
  { Absent, Str(<<" ", "S", "a", "g", "e", " ">>), Str(<<"R", "a", "z", "o", "r", "B", "l", "a", "d", "e">>), Str(<<"g", "u", "n", "p", "o", "w", "d", "e", "r">>),
    Str(<<"d", "r", "u", "g", "s">>), Str(<<"s", "p", "i", "l", "l", "e", "d", " ", "s", "a", "l", "t">>) }

Bodies ==
  [intent : Intents, length : Lengths, ingredients : Ingredients]

UserAgents == { Absent, Str(<<"c", "u", "r", "l", "/", "8">>) }

ClientIp == "203.0.113.7"

NoBody == [intent |-> Absent, length |-> Absent, ingredients |-> Absent]

Choice(hasMessage, content) == [hasMessage |-> hasMessage, content |-> content]
Completion(hasChoices, choices) ==
  [defined |-> TRUE, hasChoices |-> hasChoices, choices |-> choices]

Completions ==
  { Completion(FALSE, <<>>),
    Completion(TRUE, <<>>),
    Completion(TRUE, <<Choice(FALSE, Absent)>>),
    Completion(TRUE, <<Choice(TRUE, Absent)>>),
    Completion(TRUE, <<Choice(TRUE, Str(<<>>))>>),
    Completion(TRUE, <<Choice(TRUE, Str(<<" ", "\n">>))>>),
    Completion(TRUE, <<Choice(TRUE, Str(<<" ", "S", "o", " ", "m", "o", "t", "e", " ", "i", "t", " ", "b", "e", ".", " ">>)),
                       Choice(TRUE, Str(<<"s", "e", "c", "o", "n", "d">>))>>) }

UpstreamError(message, response, dataMessage) ==
  [defined |-> TRUE, message |-> message, response |-> response,
   dataMessage |-> dataMessage]

\* What the completion call rejects with: message "" is a missing message;
\* response is "absent", "nodata" (no data), "noerror" (data without error)
\* or "error" (data.error.message is dataMessage).
Errors ==
  { [defined |-> FALSE, message |-> "", response |-> "absent", dataMessage |-> ""],
    UpstreamError("Connection error.", "absent", ""),
    UpstreamError("", "absent", ""),
    UpstreamError("Request failed with status code 429", "error", "Rate limit reached"),
    UpstreamError("Request failed with status code 500", "nodata", ""),
    UpstreamError("Request failed with status code 502", "error", "") }

NotSettled == [kind |-> "none"]
Resolved(c) == [kind |-> "resolved", value |-> c]
Rejected(e) == [kind |-> "rejected", error |-> e]

-----------------------------------------------------------------------------
\* Actions of POST /cast-spell

\* The request arrives and the handler runs to its await or to a 400.
CastSpell(r) ==
  /\ pc[r] = "idle"
  /\ \E b \in Bodies, ua \in UserAgents :
       /\ body' = [body EXCEPT ![r] = b]
       /\ userAgent' = [userAgent EXCEPT ![r] = ua]
       /\ pc' = [pc EXCEPT ![r] = castSpellEntry(b).pc]
       /\ effects' = [effects EXCEPT ![r] = castSpellEntry(b).out]
  /\ UNCHANGED <<completion, dbState, spells, subVars>>

\* The completion call resolves: the handler answers and issues the insert.
CompletionResolves(r) ==
  /\ pc[r] = "awaiting"
  /\ \E c \in Completions :
       /\ completion' = [completion EXCEPT ![r] = Resolved(c)]
       /\ effects' = [effects EXCEPT
            ![r] = @ \o afterCompletion(body[r], userAgent[r], ClientIp, c)]
  /\ pc' = [pc EXCEPT ![r] = "done"]
  /\ dbState' = [dbState EXCEPT ![r] = "pending"]
  /\ UNCHANGED <<body, userAgent, spells, subVars>>

\* The completion call rejects: the catch block answers.
CompletionRejects(r) ==
  /\ pc[r] = "awaiting"
  /\ \E e \in Errors :
       /\ completion' = [completion EXCEPT ![r] = Rejected(e)]
       /\ effects' = [effects EXCEPT ![r] = @ \o catchError(e)]
  /\ pc' = [pc EXCEPT ![r] = "done"]
  /\ UNCHANGED <<body, userAgent, dbState, spells, subVars>>

\* The database stores the row.
InsertResolves(r) ==
  /\ dbState[r] = "pending"
  /\ dbState' = [dbState EXCEPT ![r] = "ok"]
  /\ spells' = Append(spells, issuedRow(effects[r]))
  /\ UNCHANGED <<pc, body, userAgent, completion, effects, subVars>>

\* The database rejects the query.
InsertRejects(r) ==
  /\ dbState[r] = "pending"
  /\ dbState' = [dbState EXCEPT ![r] = "failed"]
  /\ effects' = [effects EXCEPT ![r] = insertFailed(@)]
  /\ UNCHANGED <<pc, body, userAgent, completion, spells, subVars>>

-----------------------------------------------------------------------------
\* POST /subscribe

\* (req.body && req.body.email) || ''
emailOf(b) == OrDefault(b, <<>>)

\* String.prototype.indexOf(c) for one character: 0-based, -1 when absent.
indexOf(s, c) ==
  IF \E i \in 1..Len(s) : s[i] = c
    THEN SetMin({i \in 1..Len(s) : s[i] = c}) - 1
    ELSE -1

\* Array.prototype.indexOf: 0-based, -1 when absent.
arrayIndexOf(a, x) ==
  IF \E i \in 1..Len(a) : a[i] = x
    THEN SetMin({i \in 1..Len(a) : a[i] = x}) - 1
    ELSE -1

RECURSIVE escapeJson(_)
\* The escapes JSON.stringify applies to the characters of a string.
escapeJson(s) ==
  IF s = <<>> THEN <<>>
  ELSE IF Head(s) \in {"\"", "\\"} THEN <<"\\", Head(s)>> \o escapeJson(Tail(s))
  ELSE <<Head(s)>> \o escapeJson(Tail(s))

RECURSIVE unescapeJson(_)
\* JSON.parse of the characters between the quotes of a string literal.
unescapeJson(s) ==
  IF s = <<>> THEN <<>>
  ELSE IF Head(s) = "\\" /\ Len(s) > 1
    THEN <<s[2]>> \o unescapeJson(Tail(Tail(s)))
  ELSE <<Head(s)>> \o unescapeJson(Tail(s))

\* JSON.stringify(fileData, null, 2): the array as its string literals.
stringify(a) == [i \in 1..Len(a) |-> <<"\"">> \o escapeJson(a[i]) \o <<"\"">>]

\* JSON.parse(fs.readFileSync(filePath, 'utf8'))
parse(lits) ==
  [i \in 1..Len(lits) |-> unescapeJson(SubSeq(lits[i], 2, Len(lits[i]) - 1))]

\* Mutant of readFileData: the existing file is not read.
readFileDataIgnoresFile(f) == <<>>

\* fs.existsSync(filePath) ? JSON.parse(fs.readFileSync(...)) : []
readFileData(f) == IF f.exists THEN parse(f.data) ELSE <<>>

\* Mutant of alreadySubscribed: no duplicate check.
alreadySubscribedNever(fileData, email) == FALSE

\* fileData.indexOf(email) !== -1
alreadySubscribed(fileData, email) == arrayIndexOf(fileData, email) # -1

SubRes(status, key, text) == [status |-> status, key |-> key, text |-> text]

InvalidEmail == SubRes(400, "error", "Invalid email address.")
AlreadySubscribed == SubRes(200, "message", "Email already subscribed.")
SubscriptionSuccessful == SubRes(200, "message", "Subscription successful!")
FailedToSave == SubRes(500, "error", "Failed to save email.")

\* The whole handler: it is synchronous (existsSync, readFileSync,
\* writeFileSync), so it runs to its response without another request's
\* handler running in between.  write is what writeFileSync does when it is
\* reached: "ok", or "throws" (before it changes the file).
subscribe(f, b, write) ==
  LET email == emailOf(b)
      fileData == readFileData(f)
  IN  IF email = <<>> \/ indexOf(email, "@") = -1
        THEN [file |-> f, res |-> InvalidEmail]
      ELSE IF alreadySubscribed(fileData, email)
        THEN [file |-> f, res |-> AlreadySubscribed]
      ELSE IF write = "throws"
        THEN [file |-> f, res |-> FailedToSave]
      ELSE [file |-> [exists |-> TRUE, data |-> stringify(Append(fileData, email))],
            res |-> SubscriptionSuccessful]

Emails ==
  { Absent, Str(<<>>), Str(<<"n", "o", "t", "-", "a", "n", "-", "e", "m", "a", "i", "l">>), Str(<<"a", "@", "x", ".", "i", "o">>),
    Str(<<"b", "@", "x", ".", "i", "o">>), Str(<<"\"", "\\", "@", "x">>) }

NoFile == [exists |-> FALSE, data |-> <<>>]

\* emails.json at start: absent, or a list without duplicates.
Files ==
  { NoFile,
    [exists |-> TRUE, data |-> <<>>],
    [exists |-> TRUE, data |-> stringify(<<<<"a", "@", "x", ".", "i", "o">>>>)] }

WriteAnswers == {"ok", "throws"}

\* The request is received; its handler has not run yet.
SubscribeArrives(s) ==
  /\ subPc[s] = "idle"
  /\ \E b \in Emails : subBody' = [subBody EXCEPT ![s] = b]
  /\ subPc' = [subPc EXCEPT ![s] = "pending"]
  /\ overlapped' =
       IF \E t \in SubReqs : subPc[t] = "pending"
         THEN overlapped \cup {s} \cup {t \in SubReqs : subPc[t] = "pending"}
         ELSE overlapped
  /\ UNCHANGED <<file, subRes, castVars>>

\* The handler of a received request runs.
Subscribe(s) ==
  /\ subPc[s] = "pending"
  /\ \E write \in WriteAnswers :
       /\ file' = subscribe(file, subBody[s], write).file
       /\ subRes' = [subRes EXCEPT
            ![s] = Append(@, subscribe(file, subBody[s], write).res)]
  /\ subPc' = [subPc EXCEPT ![s] = "done"]
  /\ UNCHANGED <<subBody, overlapped, castVars>>

-----------------------------------------------------------------------------
\* Specifications

InitCast ==
  /\ pc = [r \in CastReqs |-> "idle"]
  /\ body = [r \in CastReqs |-> NoBody]
  /\ userAgent = [r \in CastReqs |-> Absent]
  /\ completion = [r \in CastReqs |-> NotSettled]
  /\ effects = [r \in CastReqs |-> <<>>]
  /\ dbState = [r \in CastReqs |-> "none"]
  /\ spells = <<>>

InitSub ==
  /\ subPc = [s \in SubReqs |-> "idle"]
  /\ subBody = [s \in SubReqs |-> Absent]
  /\ subRes = [s \in SubReqs |-> <<>>]
  /\ overlapped = {}

Init == InitCast /\ InitSub /\ file = NoFile

Next ==
  \E r \in CastReqs :
    \/ CastSpell(r)
    \/ CompletionResolves(r)
    \/ CompletionRejects(r)
    \/ InsertResolves(r)
    \/ InsertRejects(r)

\* The /cast-spell requests.
Spec == Init /\ [][Next]_vars

SubInit == InitCast /\ InitSub /\ file \in Files

SubNext ==
  \E s \in SubReqs :
    \/ SubscribeArrives(s)
    \/ Subscribe(s)

\* The /subscribe requests.
SubSpec == SubInit /\ [][SubNext]_vars

-----------------------------------------------------------------------------
\* Properties of POST /cast-spell

IsRes(e) == e.op = "res"
IsCall(e) == e.op = "call"
IsInsert(e) == e.op = "insert"

Responses(r) == SelectSeq(effects[r], IsRes)
Calls(r) == SelectSeq(effects[r], IsCall)
Inserts(r) == SelectSeq(effects[r], IsInsert)

\* A field that is missing, empty or whitespace-only.
Blank(f) == ~f.present \/ \A i \in 1..Len(f.s) : f.s[i] \in WhiteSpace

\* For each ingredients field a request can carry, the positions in BANNED
\* of the terms its lower-cased string contains.
HitsOf ==
  [g \in Ingredients |->
     {i \in 1..Len(BANNED) : g.present /\ includes(toLowerCase(g.s), BANNED[i])}]

BannedHits(b) == HitsOf[b.ingredients]

\* C1: every request whose intent is missing, empty or whitespace-only is
\* answered 400 'No intention provided.', whatever its length and ingredients
\* are, an ingredients string with a banned term included.
C1_BlankIntentGetsNoIntention ==
  \A r \in CastReqs :
    (pc[r] # "idle" /\ Blank(body[r].intent))
      => Responses(r) = <<Res(400, ErrorBody(NoIntention, <<>>))>>

ExpectedPreset(b) ==
  LET name == IF b.length.present THEN toLowerCase(b.length.s) ELSE <<>>
  IN  IF name = <<"s", "h", "o", "r", "t">> THEN lengthConfig.short
      ELSE IF name = <<"l", "o", "n", "g">> THEN lengthConfig.long
      ELSE lengthConfig.medium

\* C3: for every request with a non-empty intent that reaches the length
\* resolution, the preset L the completion call is built from is one of the
\* three table entries: the one the lower-cased length names, medium for a
\* missing length and for any other string.
C3_PresetIsATableEntry ==
  \A r \in CastReqs :
    Calls(r) # <<>> =>
      /\ Calls(r)[1].max_tokens = <<ExpectedPreset(body[r]).max_tokens>>
      /\ Calls(r)[1].guide = <<ExpectedPreset(body[r]).guide>>

\* The completion returned no usable text: no choices, no message, null,
\* empty or whitespace-only content.
NoUsableText(c) ==
  \/ ~c.defined
  \/ ~c.hasChoices
  \/ c.choices = <<>>
  \/ ~c.choices[1].hasMessage
  \/ Blank(c.choices[1].content)

\* C5: every 200 response carries a non-empty spell: the fallback sentence
\* when the completion has no usable text, the trimmed content of the first
\* choice otherwise.
C5_SpellNeverEmpty ==
  \A r \in CastReqs :
    \A i \in 1..Len(Responses(r)) :
      Responses(r)[i].status = 200 =>
        LET spell == Responses(r)[i].body.spell
            c == completion[r].value
        IN  /\ completion[r].kind = "resolved"
            /\ spell # <<>>
            /\ NoUsableText(c) => spell = FallbackSpell
            /\ ~NoUsableText(c) =>
                 /\ spell = trim(c.choices[1].content.s)
                 /\ spell[1] \notin WhiteSpace
                 /\ spell[Len(spell)] \notin WhiteSpace

\* C5's case: whitespace-only content, answered with the fallback sentence.
C5_Witness ==
  \E r \in CastReqs :
    /\ completion[r].kind = "resolved"
    /\ completion[r].value.hasChoices
    /\ completion[r].value.choices # <<>>
    /\ completion[r].value.choices[1].hasMessage
    /\ completion[r].value.choices[1].content.present
    /\ completion[r].value.choices[1].content.s # <<>>
    /\ Responses(r) = <<Res(200, SpellBody(FallbackSpell))>>

\* C6: the insert is issued at most once and only after the 200 response;
\* a rejected insert is logged and nothing else: the one 200 response stays
\* the only response and no second insert is issued.
C6_InsertOnceAfterResponse ==
  \A r \in CastReqs :
    /\ Len(Inserts(r)) <= 1
    /\ \A i \in 1..Len(effects[r]) :
         effects[r][i].op = "insert" =>
           \E j \in 1..(i - 1) :
             effects[r][j].op = "res" /\ effects[r][j].status = 200
    /\ dbState[r] = "failed" =>
         /\ Len(Responses(r)) = 1
         /\ Responses(r)[1].status = 200
         /\ Len(Inserts(r)) = 1
         /\ effects[r][Len(effects[r])] = Log("DB insert failed:")

\* C6's case: the insert was rejected.
C6_Witness ==
  \E r \in CastReqs : dbState[r] = "failed" /\ Len(Responses(r)) = 1

\* The request passes validation: a non-blank intent and no banned term.
PassesValidation(b) == ~Blank(b.intent) /\ BannedHits(b) = {}

\* C8: one request calls the completion service at most once: once when it
\* passes validation, never when it is answered 400, and not again after the
\* call failed.
C8_AtMostOneCall ==
  \A r \in CastReqs :
    /\ Len(Calls(r)) <= 1
    /\ (pc[r] # "idle" /\ PassesValidation(body[r])) => Len(Calls(r)) = 1
    /\ (\E i \in 1..Len(Responses(r)) : Responses(r)[i].status = 400)
         => Calls(r) = <<>>
    /\ completion[r].kind = "rejected" => Len(Calls(r)) = 1

\* C8's case: the call failed and was not repeated.
C8_Witness ==
  \E r \in CastReqs :
    /\ completion[r].kind = "rejected"
    /\ pc[r] = "done"
    /\ Len(Calls(r)) = 1

\* C9: when the completion call fails, the caller gets exactly one response:
\* 500 with the upstream error message when there is one (the response
\* data's, else the error's own) and 'OpenAI error' otherwise; never a 200.
C9_UpstreamFailureIs500 ==
  \A r \in CastReqs :
    completion[r].kind = "rejected" =>
      LET e == completion[r].error
          upstream ==
            IF e.defined /\ e.response = "error" /\ e.dataMessage # ""
              THEN e.dataMessage
            ELSE IF e.defined THEN e.message ELSE ""
      IN  /\ Len(Responses(r)) = 1
          /\ Responses(r)[1].status = 500
          /\ Responses(r)[1].body.error.text =
               (IF upstream # "" THEN upstream ELSE "OpenAI error")
          /\ Inserts(r) = <<>>

\* C9's case: an upstream message is passed through.
C9_Witness ==
  \E r \in CastReqs :
    /\ completion[r].kind = "rejected"
    /\ Responses(r) = <<Res(500, ErrorBody("Rate limit reached", <<>>))>>

\* C10: an insert is attempted only for a request answered 200 {spell}, never
\* for one answered 400 or 500, and its row carries the trimmed intent, the
\* lower-cased length value and the spell text that was returned.
C10_InsertOnlyFor200 ==
  /\ \A r \in CastReqs :
       /\ (\E i \in 1..Len(Responses(r)) : Responses(r)[i].status # 200)
            => (Inserts(r) = <<>> /\ dbState[r] = "none")
       /\ Inserts(r) # <<>> =>
            LET row == Inserts(r)[1].row
                b == body[r]
            IN  /\ Responses(r) = <<Res(200, SpellBody(row.spell_text))>>
                /\ row.intent = trim(b.intent.s)
                /\ row.intent # <<>>
                /\ row.length =
                     (IF ~b.length.present \/ b.length.s = <<>>
                        THEN <<"m", "e", "d", "i", "u", "m">>
                        ELSE toLowerCase(b.length.s))
  /\ \A s \in 1..Len(spells) :
       \E r \in CastReqs :
         /\ Inserts(r) = <<Insert(spells[s])>>
         /\ Len(Responses(r)) = 1 /\ Responses(r)[1].status = 200

\* C10's case: a stored row of a request that asked for 'SHORT'.
C10_Witness ==
  \E r \in CastReqs :
    /\ dbState[r] = "ok"
    /\ body[r].length = Str(<<"S", "H", "O", "R", "T">>)
    /\ spells # <<>>
    /\ spells[1].length = <<"s", "h", "o", "r", "t">>
    /\ spells[1].intent = <<"f", "i", "n", "d", " ", "c", "l", "a", "r", "i", "t", "y">>

-----------------------------------------------------------------------------
\* Properties of POST /subscribe

\* The list emails.json holds.
Stored == IF file.exists THEN parse(file.data) ELSE <<>>

Count(a, x) == Cardinality({i \in 1..Len(a) : a[i] = x})

\* A body whose email passes the handler's check: a string with an '@'.
ValidEmail(b) == b.present /\ \E i \in 1..Len(b.s) : b.s[i] = "@"

C4_State ==
  /\ \A i, j \in 1..Len(Stored) : Stored[i] = Stored[j] => i = j
  /\ \A s \in SubReqs :
       (subPc[s] = "done" /\ ValidEmail(subBody[s])) =>
         /\ subRes[s] \in {<<SubscriptionSuccessful>>, <<AlreadySubscribed>>,
                           <<FailedToSave>>}
         /\ subRes[s][1].status = 200 => Count(Stored, subBody[s].s) = 1
  /\ \A s, t \in SubReqs :
       (s # t /\ subBody[s] = subBody[t]
          /\ subRes[s] = <<SubscriptionSuccessful>>)
         => subRes[t] # <<SubscriptionSuccessful>>

C4_Step ==
  \A s \in SubReqs :
    ( /\ subPc[s] = "pending"
      /\ subPc'[s] = "done"
      /\ ValidEmail(subBody[s])
      /\ Count(Stored, subBody[s].s) > 0 )
    => (subRes'[s] = <<AlreadySubscribed>> /\ file' = file)

\* C4: starting from an absent or duplicate-free emails.json, the stored
\* list holds each email at most once; a request for an email that is
\* already stored is answered 200 'Email already subscribed.' and leaves the
\* store unchanged, so of the requests for one email at most one is answered
\* 'Subscription successful!' and every one answered 200 finds the email
\* stored exactly once.
C4_EachEmailStoredOnce == [](C4_State) /\ [][C4_Step]_vars

\* C4's case: the same email submitted twice, two 200 responses, one stored
\* instance.
C4_Witness ==
  \E s, t \in SubReqs :
    /\ s # t
    /\ subBody[s] = subBody[t]
    /\ subRes[s] = <<SubscriptionSuccessful>>
    /\ subRes[t] = <<AlreadySubscribed>>
    /\ Count(Stored, subBody[s].s) = 1

\* C7, as stated: when two requests for two different new emails are
\* received together and one has been answered 'Subscription successful!',
\* handling the other can answer 'Subscription successful!' too and leave a
\* file without the first email.
C7_LostUpdateCanHappen ==
  \A s, t \in SubReqs :
    ( /\ s # t
      /\ {s, t} \subseteq overlapped
      /\ subRes[s] = <<SubscriptionSuccessful>>
      /\ subPc[t] = "pending"
      /\ ValidEmail(subBody[t])
      /\ subBody[t] # subBody[s]
      /\ Count(Stored, subBody[t].s) = 0 )
    => ENABLED ( /\ Subscribe(t)
                 /\ subRes'[t] = <<SubscriptionSuccessful>>
                 /\ Count(parse(file'.data), subBody[s].s) = 0 )

\* C7, amended: the handler is synchronous, so the requests of one server
\* process are handled one at a time: every request answered 'Subscription
\* successful!' has its email in emails.json from then on, and two requests
\* for different new emails that were both answered so are both stored.
C7_NoLostUpdate ==
  \A s, t \in SubReqs :
    (subRes[s] = <<SubscriptionSuccessful>> /\ subRes[t] = <<SubscriptionSuccessful>>)
      => /\ Count(Stored, subBody[s].s) = 1
         /\ Count(Stored, subBody[t].s) = 1
         /\ s # t => subBody[s] # subBody[t]

\* C7's case: two requests for different new emails, received together,
\* both answered 'Subscription successful!'.
C7_Witness ==
  \E s, t \in SubReqs :
    /\ s # t
    /\ {s, t} \subseteq overlapped
    /\ subBody[s] # subBody[t]
    /\ subRes[s] = <<SubscriptionSuccessful>>
    /\ subRes[t] = <<SubscriptionSuccessful>>
    /\ Count(Stored, subBody[s].s) = 1
    /\ Count(Stored, subBody[t].s) = 1

====
